---- MODULE Spec2Model ----
(***************************************************************************)
(* Model of the deployment consistency checker (deployments-check.py) and  *)
(* of the deployment.toml updater (contracts/update_deployment_toml.py).   *)
(*                                                                         *)
(* Text is modelled as it is matched by the regular expressions of the     *)
(* source: a string is a sequence of one-character strings, a line of the  *)
(* documentation is the sequence of its whitespace-separated words, and    *)
(* the documentation is the sequence of its lines.  A Rust source file is  *)
(* the sequence of its `pub const NAME: Deployment = Deployment {...};`    *)
(* blocks, each block the sequence of its `field: value` entries.          *)
(***************************************************************************)
EXTENDS Integers, Sequences, FiniteSets, TLC

(***************************************************************************)
(* Characters and case conversion (str.lower / str.upper).                 *)
(***************************************************************************)
UpperLetters ==
    <<"A","B","C","D","E","F","G","H","I","J","K","L","M",
      "N","O","P","Q","R","S","T","U","V","W","X","Y","Z">>

LowerLetters ==
    <<"a","b","c","d","e","f","g","h","i","j","k","l","m",
      "n","o","p","q","r","s","t","u","v","w","x","y","z">>

DigitChars == {"0","1","2","3","4","5","6","7","8","9"}

UpperSet == {UpperLetters[i] : i \in DOMAIN UpperLetters}

LowerSet == {LowerLetters[i] : i \in DOMAIN LowerLetters}

ToLowerMap == [c \in UpperSet |-> LowerLetters[CHOOSE i \in DOMAIN UpperLetters : UpperLetters[i] = c]]

ToUpperMap == [c \in LowerSet |-> UpperLetters[CHOOSE i \in DOMAIN LowerLetters : LowerLetters[i] = c]]

LowerChar(c) == IF c \in UpperSet THEN ToLowerMap[c] ELSE c

UpperChar(c) == IF c \in LowerSet THEN ToUpperMap[c] ELSE c

\* str.lower()
Lower(s) == [i \in DOMAIN s |-> LowerChar(s[i])]

\* str.upper()
Upper(s) == [i \in DOMAIN s |-> UpperChar(s[i])]

\* the regex class [a-fA-F0-9]
HexChars == DigitChars \cup {"a","b","c","d","e","f","A","B","C","D","E","F"}

\* the regex class \w
IsWordChar(c) == c \in UpperSet \cup LowerSet \cup DigitChars \cup {"_"}

\* the number of hex digits of an address: the {40} of both address patterns,
\* scaled down; every address of the model is written with HexLen digits
HexLen == 4

\* 0x[a-fA-F0-9]{40} matched at position p of s
AddrAt(s, p) ==
    /\ p >= 1
    /\ p + HexLen + 1 <= Len(s)
    /\ s[p] = "0"
    /\ s[p + 1] = "x"
    /\ \A k \in 2 .. (HexLen + 1) : s[p + k] \in HexChars

EmptyMap == [k \in {} |-> <<>>]

\* dict.get(key, '')
Get(d, k) == IF k \in DOMAIN d THEN d[k] ELSE <<>>

\* d[k] = v
Put(d, k, v) == [x \in (DOMAIN d) \cup {k} |-> IF x = k THEN v ELSE d[x]]

(***************************************************************************)
(* extract_rs_addresses                                                    *)
(*   rs_content : sequence of blocks [name, body]                          *)
(*   body       : sequence of entries [field, val, comma]                  *)
(*   val        : [shape, lit] with shape "None", "address" (bare          *)
(*                address!("lit")), "Some" (Some(address!("lit"))) or      *)
(*                "other"; lit is the text between the quotes.             *)
(***************************************************************************)
\* field names that the pattern (\w+_address) matches
AddressFieldNames ==
    {"boundless_market_address", "verifier_router_address", "set_verifier_address",
     "collateral_token_address", "zkc_address", "vezkc_address",
     "staking_rewards_address", "povw_accounting_address", "povw_mint_address"}

\* re.search(r'address!\(\s*"(?P<addr>0x[a-fA-F0-9]{40})"\s*\)', val)
AddressLiteral(val) ==
    IF val.shape \in {"address", "Some"} /\ Len(val.lit) = HexLen + 2 /\ AddrAt(val.lit, 1)
    THEN val.lit
    ELSE <<>>

\* FieldValue without .lower()
FieldValue_NoLower(val) ==
    IF val.shape = "None" THEN <<>> ELSE AddressLiteral(val)

\* the value one entry contributes (lines 40-51)
FieldValue(val) ==
    IF val.shape = "None" THEN <<>>
    ELSE LET m_addr == AddressLiteral(val)
         IN  IF m_addr # <<>> THEN Lower(m_addr) ELSE <<>>

\* re.finditer(r'(\w+_address)\s*:\s*([^,]+),', block): the entries in order
RECURSIVE ScanFields(_, _, _)
ScanFields(body, i, addresses) ==
    IF i > Len(body) THEN addresses
    ELSE IF body[i].field \in AddressFieldNames /\ body[i].comma
         THEN ScanFields(body, i + 1, Put(addresses, body[i].field, FieldValue(body[i].val)))
         ELSE ScanFields(body, i + 1, addresses)

\* re.search(block_pat, rs_content): index of the first block of that name, 0 if none
FindBlock(rs_content, name) ==
    IF \E i \in DOMAIN rs_content : rs_content[i].name = name
    THEN CHOOSE i \in DOMAIN rs_content :
            /\ rs_content[i].name = name
            /\ \A j \in 1 .. (i - 1) : rs_content[j].name # name
    ELSE 0

extract_rs_addresses(rs_content, network) ==
    LET b == FindBlock(rs_content, Upper(network))
    IN  IF b = 0 THEN EmptyMap ELSE ScanFields(rs_content[b].body, 1, EmptyMap)

(***************************************************************************)
(* extract_docs_addresses                                                  *)
(***************************************************************************)
H3 == <<"#","#","#">>

\* label patterns of grab(): [text, bounded] (bounded: written \b...\b)
LblBoundlessMarket == [text |-> <<"B","o","u","n","d","l","e","s","s","M","a","r","k","e","t">>, bounded |-> FALSE]

LblSetVerifier == [text |-> <<"S","e","t","V","e","r","i","f","i","e","r">>, bounded |-> FALSE]

LblRouter == [text |-> <<"R","i","s","c","Z","e","r","o","V","e","r","i","f","i","e","r","R","o","u","t","e","r">>, bounded |-> FALSE]

LblCollateralToken == [text |-> <<"C","o","l","l","a","t","e","r","a","l","T","o","k","e","n">>, bounded |-> FALSE]

LblZKC == [text |-> <<"Z","K","C">>, bounded |-> TRUE]

LblVeZKC == [text |-> <<"v","e","Z","K","C">>, bounded |-> TRUE]

LblStakingRewards == [text |-> <<"S","t","a","k","i","n","g","R","e","w","a","r","d","s">>, bounded |-> FALSE]

LblPovwAccounting == [text |-> <<"P","O","V","W","_","A","C","C","O","U","N","T","I","N","G">>, bounded |-> TRUE]

LblPovwMint == [text |-> <<"P","O","V","W","_","M","I","N","T">>, bounded |-> TRUE]

\* the label pattern matches word w at position p
LabelAt(w, p, label) ==
    LET n == Len(label.text)
    IN  /\ p >= 1
        /\ p + n - 1 <= Len(w)
        /\ \A k \in 1 .. n : w[p + k - 1] = label.text[k]
        /\ label.bounded =>
              /\ (p = 1 \/ ~IsWordChar(w[p - 1]))
              /\ (p + n - 1 = Len(w) \/ ~IsWordChar(w[p + n]))

\* least position >= p of word w at which the label matches, 0 if none
RECURSIVE LabelPosFrom(_, _, _)
LabelPosFrom(w, p, label) ==
    IF p + Len(label.text) - 1 > Len(w) THEN 0
    ELSE IF LabelAt(w, p, label) THEN p
    ELSE LabelPosFrom(w, p + 1, label)

LabelPos(w, label) == LabelPosFrom(w, 1, label)

\* least position >= from of word w at which an address starts, 0 if none
RECURSIVE AddrPos(_, _)
AddrPos(w, from) ==
    IF from + HexLen + 1 > Len(w) THEN 0
    ELSE IF AddrAt(w, from) THEN from
    ELSE AddrPos(w, from + 1)

AddrText(w, p) == SubSeq(w, p, p + HexLen + 1)

\* first address of the words j.. of a line (word j searched from position from)
RECURSIVE FirstAddrFrom(_, _, _)
FirstAddrFrom(line, j, from) ==
    IF j > Len(line) THEN <<>>
    ELSE LET p == AddrPos(line[j], from)
         IN  IF p # 0 THEN AddrText(line[j], p) ELSE FirstAddrFrom(line, j + 1, 1)

\* label.*?(0x[a-fA-F0-9]{40}) on one line ('.' does not match a newline):
\* the address that follows the first occurrence of the label, <<>> if none
RECURSIVE LineMatch(_, _, _)
LineMatch(line, j, label) ==
    IF j > Len(line) THEN <<>>
    ELSE LET p == LabelPos(line[j], label)
         IN  IF p # 0 THEN FirstAddrFrom(line, j, p + Len(label.text))
             ELSE LineMatch(line, j + 1, label)

\* grab(label): re.findall(...)[0] lowercased, '' when nothing matches
RECURSIVE GrabFrom(_, _, _)
GrabFrom(section, i, label) ==
    IF i > Len(section) THEN <<>>
    ELSE LET m == LineMatch(section[i], 1, label)
         IN  IF m # <<>> THEN Lower(m) ELSE GrabFrom(section, i + 1, label)

RECURSIVE JoinLines(_)
JoinLines(section) == IF section = <<>> THEN <<>> ELSE Head(section) \o JoinLines(Tail(section))

\* grab with re.DOTALL: the address may follow the label on a later line
grab_DotAll(section, label) == Lower(LineMatch(JoinLines(section), 1, label))

grab(section, label) == GrabFrom(section, 1, label)

\* the header text occurs in line at word j (re.IGNORECASE)
HeaderAt(line, j, header) ==
    /\ j + Len(header) - 1 <= Len(line)
    /\ \A k \in 1 .. Len(header) :
          /\ Len(line[j + k - 1]) = Len(header[k])
          /\ Lower(line[j + k - 1]) = Lower(header[k])

\* a line that starts with ###
StartsHeader(line) ==
    /\ Len(line) >= 1
    /\ Len(line[1]) >= 3
    /\ SubSeq(line[1], 1, 3) = H3

\* first word >= j of the line at which the header text starts, 0 if none
RECURSIVE HeaderWord(_, _, _)
HeaderWord(line, j, header) ==
    IF j + Len(header) - 1 > Len(line) THEN 0
    ELSE IF HeaderAt(line, j, header) THEN j
    ELSE HeaderWord(line, j + 1, header)

\* first line >= i of the documentation that contains the header text, 0 if none
RECURSIVE HeaderLine(_, _, _)
HeaderLine(docs_content, i, header) ==
    IF i > Len(docs_content) THEN 0
    ELSE IF HeaderWord(docs_content[i], 1, header) # 0 THEN i
    ELSE HeaderLine(docs_content, i + 1, header)

\* last line of the section whose text runs from line i on: the line before the
\* next line that starts with ###, or the last line of the documentation
RECURSIVE SectionEnd(_, _)
SectionEnd(docs_content, i) ==
    IF i + 1 > Len(docs_content) THEN Len(docs_content)
    ELSE IF StartsHeader(docs_content[i + 1]) THEN i
    ELSE SectionEnd(docs_content, i + 1)

\* section_match.group(1) for the header found on line i: the rest of that line
\* and the lines after it
SectionBody(docs_content, i, header) ==
    LET j == HeaderWord(docs_content[i], 1, header)
    IN  <<SubSeq(docs_content[i], j + Len(header), Len(docs_content[i]))>>
            \o SubSeq(docs_content, i + 1, SectionEnd(docs_content, i))

\* the label grabbed for each key (lines 69-78)
LabelOf(f) ==
    CASE f = "boundless_market_address" -> LblBoundlessMarket
      [] f = "set_verifier_address" -> LblSetVerifier
      [] f = "verifier_router_address" -> LblRouter
      [] f = "collateral_token_address" -> LblCollateralToken
      [] f = "zkc_address" -> LblZKC
      [] f = "vezkc_address" -> LblVeZKC
      [] f = "staking_rewards_address" -> LblStakingRewards
      [] f = "povw_accounting_address" -> LblPovwAccounting
      [] f = "povw_mint_address" -> LblPovwMint

\* the dict filled on lines 69-78
GrabAll(section) == [f \in AddressFieldNames |-> grab(section, LabelOf(f))]

extract_docs_addresses(docs_content, network_section) ==
    LET i == HeaderLine(docs_content, 1, network_section)
    IN  IF i = 0 THEN EmptyMap ELSE GrabAll(SectionBody(docs_content, i, network_section))

\* check_todos: the lines that contain TODO
HasTodo(line) ==
    \E j \in DOMAIN line : \E p \in 1 .. (Len(line[j]) - 3) :
        line[j][p] = "T" /\ line[j][p + 1] = "O" /\ line[j][p + 2] = "D" /\ line[j][p + 3] = "O"

check_todos(docs_content) == SelectSeq(docs_content, HasTodo)

\* toml_section: the [deployment.<network>] table, {} when there is none
toml_section(toml_data, network_key) ==
    IF network_key \in DOMAIN toml_data THEN toml_data[network_key] ELSE EmptyMap


(***************************************************************************)
(* Tables of main()                                                        *)
(***************************************************************************)
W_Base == <<"B","a","s","e">>

W_Sepolia == <<"S","e","p","o","l","i","a">>

W_Ethereum == <<"E","t","h","e","r","e","u","m">>

\* dict iteration follows insertion order: a dict is the sequence of its items
boundless_networks ==
    <<[net_key |-> "base-mainnet", docs_header |-> <<H3, W_Base>>],
      [net_key |-> "base-sepolia", docs_header |-> <<H3, W_Base, W_Sepolia>>],
      [net_key |-> "ethereum-sepolia", docs_header |-> <<H3, W_Ethereum, W_Sepolia>>]>>

zkc_networks ==
    <<[net_key |-> "ethereum-mainnet", docs_header |-> <<H3, W_Ethereum>>],
      [net_key |-> "ethereum-sepolia", docs_header |-> <<H3, W_Ethereum, W_Sepolia>>]>>

boundless_rs_network_keys(net_key) ==
    CASE net_key = "base-mainnet" -> <<"B","A","S","E">>
      [] net_key = "base-sepolia" -> <<"B","A","S","E","_","S","E","P","O","L","I","A">>
      [] net_key = "ethereum-sepolia" -> <<"S","E","P","O","L","I","A">>

zkc_rs_network_keys(net_key) ==
    CASE net_key = "ethereum-mainnet" -> <<"M","A","I","N","N","E","T">>
      [] net_key = "ethereum-sepolia" -> <<"S","E","P","O","L","I","A">>

boundless_mapping ==
    <<[toml_field |-> "boundless-market", addr_field |-> "boundless_market_address"],
      [toml_field |-> "verifier", addr_field |-> "verifier_router_address"],
      [toml_field |-> "set-verifier", addr_field |-> "set_verifier_address"],
      [toml_field |-> "collateral-token", addr_field |-> "collateral_token_address"]>>

zkc_mapping ==
    <<[toml_field |-> "zkc", addr_field |-> "zkc_address"],
      [toml_field |-> "vezkc", addr_field |-> "vezkc_address"]>>

povw_mapping ==
    <<[toml_field |-> "zkc", addr_field |-> "zkc_address"],
      [toml_field |-> "vezkc", addr_field |-> "vezkc_address"],
      [toml_field |-> "povw-accounting", addr_field |-> "povw_accounting_address"],
      [toml_field |-> "povw-mint", addr_field |-> "povw_mint_address"]>>

BoundlessRs == "crates/boundless-market/src/deployments.rs"

ZkcRs == "crates/zkc/src/deployments.rs"

PovwRs == "crates/povw/src/deployments.rs"

(***************************************************************************)
(* The issues main() prints.  An issue is one print that is followed by    *)
(* errors += 1; the two value lines under a Mismatch are not modelled.     *)
(* group names the loop that printed the issue (it is not part of the      *)
(* printed text).                                                          *)
(***************************************************************************)
Issue(kind, group, net_key, field, where) ==
    [kind |-> kind, group |-> group, net |-> net_key, field |-> field, where |-> where]

\* Normalized without .lower()
Normalized_NoLower(d, field) == Get(d, field)

\* str(d.get(field, '') or '').lower()
Normalized(d, field) == Lower(Get(d, field))

\* "Missing [deployment.<net>] <toml_field> in deployment.toml"
MissingToml(g, net_key, m, toml_addr) ==
    IF toml_addr = <<>> THEN <<Issue("Missing", g, net_key, m.toml_field, "deployment.toml")>> ELSE <<>>

\* "Missing [<net>] <addr_field> in <rs file>"
MissingRs(g, net_key, m, rs_addr, rs_file) ==
    IF rs_addr = <<>> THEN <<Issue("Missing", g, net_key, m.addr_field, rs_file)>> ELSE <<>>

\* the documentation's presence check left out
MissingDocs_Skipped(g, net_key, m, docs_addr) == <<>>

\* "Missing [<net>] <addr_field> in documentation section '<header>'"
MissingDocs(g, net_key, m, docs_addr) ==
    IF docs_addr = <<>> THEN <<Issue("Missing", g, net_key, m.addr_field, "documentation")>> ELSE <<>>

\* MismatchRs without the test that both values are there
MismatchRs_NoPresence(g, net_key, m, toml_addr, rs_addr) ==
    IF toml_addr # rs_addr THEN <<Issue("Mismatch", g, net_key, m.toml_field, "RS")>> ELSE <<>>

\* "Mismatch [<net>] <toml_field> between TOML and RS:"
MismatchRs(g, net_key, m, toml_addr, rs_addr) ==
    IF toml_addr # <<>> /\ rs_addr # <<>> /\ toml_addr # rs_addr
    THEN <<Issue("Mismatch", g, net_key, m.toml_field, "RS")>> ELSE <<>>

\* "Mismatch [<net>] <toml_field> between TOML and documentation:"
MismatchDocs(g, net_key, m, toml_addr, docs_addr) ==
    IF toml_addr # <<>> /\ docs_addr # <<>> /\ toml_addr # docs_addr
    THEN <<Issue("Mismatch", g, net_key, m.toml_field, "documentation")>> ELSE <<>>

\* body of the inner loop of the boundless-market group (lines 148-175)
BoundlessFieldIssues(net_key, m, toml_net, rs_addrs, docs_addrs) ==
    LET toml_addr == Normalized(toml_net, m.toml_field)
        rs_addr == Normalized(rs_addrs, m.addr_field)
        docs_addr == Normalized(docs_addrs, m.addr_field)
    IN  MissingToml("boundless", net_key, m, toml_addr)
            \o MissingRs("boundless", net_key, m, rs_addr, BoundlessRs)
            \o MissingDocs("boundless", net_key, m, docs_addr)
            \o MismatchRs("boundless", net_key, m, toml_addr, rs_addr)
            \o MismatchDocs("boundless", net_key, m, toml_addr, docs_addr)

\* body of the inner loop of the ZKC and PoVW groups (lines 189-206, 220-237)
RsFieldIssues(g, net_key, m, toml_net, rs_addrs, rs_file) ==
    LET toml_addr == Normalized(toml_net, m.toml_field)
        rs_addr == Normalized(rs_addrs, m.addr_field)
    IN  MissingToml(g, net_key, m, toml_addr)
            \o MissingRs(g, net_key, m, rs_addr, rs_file)
            \o MismatchRs(g, net_key, m, toml_addr, rs_addr)

RECURSIVE BoundlessIssues(_, _, _, _, _)
BoundlessIssues(net_key, i, toml_net, rs_addrs, docs_addrs) ==
    IF i > Len(boundless_mapping) THEN <<>>
    ELSE BoundlessFieldIssues(net_key, boundless_mapping[i], toml_net, rs_addrs, docs_addrs)
            \o BoundlessIssues(net_key, i + 1, toml_net, rs_addrs, docs_addrs)

\* the inner loop left at the first field that has an error
RECURSIVE RsIssues_FirstOnly(_, _, _, _, _, _, _)
RsIssues_FirstOnly(g, net_key, mapping, i, toml_net, rs_addrs, rs_file) ==
    IF i > Len(mapping) THEN <<>>
    ELSE LET found == RsFieldIssues(g, net_key, mapping[i], toml_net, rs_addrs, rs_file)
         IN  IF found # <<>> THEN found
             ELSE RsIssues_FirstOnly(g, net_key, mapping, i + 1, toml_net, rs_addrs, rs_file)

RECURSIVE RsIssues(_, _, _, _, _, _, _)
RsIssues(g, net_key, mapping, i, toml_net, rs_addrs, rs_file) ==
    IF i > Len(mapping) THEN <<>>
    ELSE RsFieldIssues(g, net_key, mapping[i], toml_net, rs_addrs, rs_file)
            \o RsIssues(g, net_key, mapping, i + 1, toml_net, rs_addrs, rs_file)

TodoIssues(todos) == [i \in DOMAIN todos |-> Issue("Todo", "", "", "", "documentation")]

(***************************************************************************)
(* State                                                                   *)
(***************************************************************************)
VARIABLES
    pc,               \* position of the running script
    \* deployments-check.py
    toml_data,        \* the [deployment] table of deployment.toml: network -> field -> value
    rs_content,       \* crates/boundless-market/src/deployments.rs
    zkc_rs_content,   \* crates/zkc/src/deployments.rs
    povw_rs_content,  \* crates/povw/src/deployments.rs
    docs_content,     \* deployments.mdx
    errors,           \* the error counter of main()
    report,           \* the issues printed so far
    iter,             \* index of the next item of the running for loop
    exit_code,        \* -1 while running, then the exit status
    \* extract_rs_addresses / extract_docs_addresses called on their own
    network,          \* argument network / network_section
    addresses,        \* the returned dict
    \* contracts/update_deployment_toml.py
    toml_file,        \* the text of contracts/deployment.toml on disk
    CHAIN_KEY,        \* os.environ.get("CHAIN_KEY", "anvil")
    field_mapping,    \* the arguments that are not None: key -> value
    content,          \* the text read from the file
    doc,              \* the parsed document
    next_key,         \* index of the next item of field_mapping to look at
    stdout            \* the lines printed

checkerVars == <<toml_data, rs_content, zkc_rs_content, povw_rs_content, docs_content,
                 errors, report, iter, exit_code>>

extractVars == <<network, addresses>>

updaterVars == <<toml_file, CHAIN_KEY, field_mapping, content, doc, next_key, stdout>>

vars == <<pc, checkerVars, extractVars, updaterVars>>

(***************************************************************************)
(* main() of deployments-check.py                                          *)
(***************************************************************************)
\* lines 104-109
ScanTodos ==
    /\ pc = "todos"
    /\ \E todos \in {check_todos(docs_content)} :
          /\ report' = report \o TodoIssues(todos)
          /\ errors' = errors + Len(todos)
    /\ pc' = "boundless"
    /\ iter' = 1
    /\ UNCHANGED <<toml_data, rs_content, zkc_rs_content, povw_rs_content, docs_content, exit_code>>
    /\ UNCHANGED <<extractVars, updaterVars>>

\* one iteration of the loop of lines 136-175
CheckBoundless ==
    /\ pc = "boundless"
    /\ LET net_key == boundless_networks[iter].net_key
           docs_header == boundless_networks[iter].docs_header
           toml_net == toml_section(toml_data, net_key)
       IN  \E rs_addrs \in {extract_rs_addresses(rs_content, boundless_rs_network_keys(net_key))},
              docs_addrs \in {extract_docs_addresses(docs_content, docs_header)} :
              \E found \in {BoundlessIssues(net_key, 1, toml_net, rs_addrs, docs_addrs)} :
                 /\ report' = report \o found
                 /\ errors' = errors + Len(found)
    /\ IF iter < Len(boundless_networks)
       THEN iter' = iter + 1 /\ pc' = pc
       ELSE iter' = 1 /\ pc' = "zkc"
    /\ UNCHANGED <<toml_data, rs_content, zkc_rs_content, povw_rs_content, docs_content, exit_code>>
    /\ UNCHANGED <<extractVars, updaterVars>>

\* one iteration of the loop of lines 178-206
CheckZkc ==
    /\ pc = "zkc"
    /\ LET net_key == zkc_networks[iter].net_key
           toml_net == toml_section(toml_data, net_key)
       IN  \E rs_addrs \in {extract_rs_addresses(zkc_rs_content, zkc_rs_network_keys(net_key))} :
              \E found \in {RsIssues("zkc", net_key, zkc_mapping, 1, toml_net, rs_addrs, ZkcRs)} :
                 /\ report' = report \o found
                 /\ errors' = errors + Len(found)
    /\ IF iter < Len(zkc_networks)
       THEN iter' = iter + 1 /\ pc' = pc
       ELSE iter' = 1 /\ pc' = "povw"
    /\ UNCHANGED <<toml_data, rs_content, zkc_rs_content, povw_rs_content, docs_content, exit_code>>
    /\ UNCHANGED <<extractVars, updaterVars>>

\* one iteration of the loop of lines 209-237
CheckPovw ==
    /\ pc = "povw"
    /\ LET net_key == zkc_networks[iter].net_key
           toml_net == toml_section(toml_data, net_key)
       IN  \E rs_addrs \in {extract_rs_addresses(povw_rs_content, zkc_rs_network_keys(net_key))} :
              \E found \in {RsIssues("povw", net_key, povw_mapping, 1, toml_net, rs_addrs, PovwRs)} :
                 /\ report' = report \o found
                 /\ errors' = errors + Len(found)
    /\ IF iter < Len(zkc_networks)
       THEN iter' = iter + 1 /\ pc' = pc
       ELSE iter' = 1 /\ pc' = "summary"
    /\ UNCHANGED <<toml_data, rs_content, zkc_rs_content, povw_rs_content, docs_content, exit_code>>
    /\ UNCHANGED <<extractVars, updaterVars>>

\* lines 239-240
ExitSuccess ==
    /\ pc = "summary"
    /\ errors = 0
    /\ report' = Append(report, Issue("Success", "", "", "", ""))
    /\ exit_code' = 0
    /\ pc' = "done"
    /\ UNCHANGED <<toml_data, rs_content, zkc_rs_content, povw_rs_content, docs_content, errors, iter>>
    /\ UNCHANGED <<extractVars, updaterVars>>

\* lines 241-243
ExitFailure ==
    /\ pc = "summary"
    /\ errors # 0
    /\ report' = Append(report, Issue("Summary", "", "", "", ""))
    /\ exit_code' = 1
    /\ pc' = "done"
    /\ UNCHANGED <<toml_data, rs_content, zkc_rs_content, povw_rs_content, docs_content, errors, iter>>
    /\ UNCHANGED <<extractVars, updaterVars>>


(***************************************************************************)
(* Input files of the checker.  A run starts from a consistent fixture in  *)
(* which one tracked (group, network, field) is varied in each of the      *)
(* three sources, the documentation sections come in any order, and up to  *)
(* MaxTodos TODO lines follow the first line of the documentation.         *)
(***************************************************************************)
MaxTodos == 1

NetTag(net_key) ==
    CASE net_key = "base-mainnet" -> "1"
      [] net_key = "base-sepolia" -> "2"
      [] net_key = "ethereum-sepolia" -> "3"
      [] net_key = "ethereum-mainnet" -> "4"

FieldTag(toml_field) ==
    CASE toml_field = "boundless-market" -> "a"
      [] toml_field = "verifier" -> "b"
      [] toml_field = "set-verifier" -> "d"
      [] toml_field = "collateral-token" -> "e"
      [] toml_field = "zkc" -> "f"
      [] toml_field = "vezkc" -> "5"
      [] toml_field = "povw-accounting" -> "6"
      [] toml_field = "povw-mint" -> "7"

Filled(c) == [i \in 1 .. (HexLen - 2) |-> c]

\* the address the fixture deploys toml_field at on net_key, written as variant v
AddrOf(net_key, toml_field, v) ==
    CASE v = "upper" -> <<"0", "x", NetTag(net_key), UpperChar(FieldTag(toml_field))>> \o Filled("C")
      [] v = "other" -> <<"0", "x", NetTag(net_key), FieldTag(toml_field)>> \o Filled("9")
      [] OTHER -> <<"0", "x", NetTag(net_key), FieldTag(toml_field)>> \o Filled("c")

Groups == {"boundless", "zkc", "povw"}

GroupNetworks(g) == IF g = "boundless" THEN boundless_networks ELSE zkc_networks

GroupMapping(g) ==
    CASE g = "boundless" -> boundless_mapping
      [] g = "zkc" -> zkc_mapping
      [] g = "povw" -> povw_mapping

GroupConst(g, net_key) ==
    IF g = "boundless" THEN boundless_rs_network_keys(net_key) ELSE zkc_rs_network_keys(net_key)

Range(q) == {q[i] : i \in DOMAIN q}

\* the tracked (group, network, field) triples
Tracked ==
    {[group |-> g, net |-> n.net_key, m |-> m] :
        g \in Groups, n \in Range(boundless_networks) \cup Range(zkc_networks),
        m \in Range(boundless_mapping) \cup Range(povw_mapping)}

IsTracked(t) == t.net \in {n.net_key : n \in Range(GroupNetworks(t.group))} /\ t.m \in Range(GroupMapping(t.group))

TomlVariants == {"ok", "upper", "other", "absent", "nosection"}

RsVariants == {"ok", "upper", "other", "None", "nofield", "shape", "noblock"}

DocsVariants == {"ok", "upper", "other", "noaddr", "nosection"}

\* the variation of one run: the field is varied in deployment.toml and in one
\* of the two other sources
Variations ==
    {v \in [t : Tracked, toml : TomlVariants, rs : RsVariants, docs : DocsVariants] :
        /\ IsTracked(v.t)
        /\ v.t.group # "boundless" => v.docs = "ok"
        /\ v.rs = "ok" \/ v.docs = "ok"
        /\ v.toml = "nosection" => v.rs = "ok" /\ v.docs = "ok"
        /\ v.rs = "noblock" \/ v.docs = "nosection" => v.toml = "ok"}

AllNets == {"base-mainnet", "base-sepolia", "ethereum-sepolia", "ethereum-mainnet"}

NetFields(net_key) ==
    {t.m.toml_field : t \in {x \in Tracked : IsTracked(x) /\ x.net = net_key}}

TomlFixture(v) ==
    [n \in AllNets \ (IF v.toml = "nosection" THEN {v.t.net} ELSE {}) |->
        [f \in NetFields(n) \ (IF v.toml = "absent" /\ n = v.t.net THEN {v.t.m.toml_field} ELSE {}) |->
            IF n = v.t.net /\ f = v.t.m.toml_field THEN AddrOf(n, f, v.toml) ELSE AddrOf(n, f, "ok")]]

\* the entry of field m in the block of net_key of the file of group g
RsEntry(g, net_key, i, v) ==
    LET m == GroupMapping(g)[i]
        hit == v.t.group = g /\ v.t.net = net_key /\ v.t.m = m
        how == IF hit THEN v.rs ELSE "ok"
    IN  [field |-> m.addr_field,
         val |-> CASE how = "None" -> [shape |-> "None", lit |-> <<>>]
                   [] how = "shape" -> [shape |-> "other", lit |-> <<>>]
                   [] OTHER -> [shape |-> IF i % 2 = 0 THEN "Some" ELSE "address",
                                lit |-> AddrOf(net_key, m.toml_field, how)],
         comma |-> TRUE]

RsBlock(g, net_key, v) ==
    LET all == [i \in DOMAIN GroupMapping(g) |-> RsEntry(g, net_key, i, v)]
        Kept(e) == ~(v.rs = "nofield" /\ v.t.group = g /\ v.t.net = net_key /\ e.field = v.t.m.addr_field)
    IN  [name |-> GroupConst(g, net_key),
         body |-> <<[field |-> "chain_id", val |-> [shape |-> "other", lit |-> <<>>], comma |-> TRUE]>>
                    \o SelectSeq(all, Kept)]

RsFixture(g, v) ==
    LET all == [i \in DOMAIN GroupNetworks(g) |-> RsBlock(g, GroupNetworks(g)[i].net_key, v)]
        Kept(b) == ~(v.rs = "noblock" /\ v.t.group = g /\ b.name = GroupConst(g, v.t.net))
    IN  SelectSeq(all, Kept)

DocsLabel(m) ==
    CASE m.toml_field = "boundless-market" -> LblBoundlessMarket.text
      [] m.toml_field = "verifier" -> LblRouter.text
      [] m.toml_field = "set-verifier" -> LblSetVerifier.text
      [] m.toml_field = "collateral-token" -> LblCollateralToken.text

DocsLine(net_key, m, v) ==
    LET how == IF v.t.group = "boundless" /\ v.t.net = net_key /\ v.t.m = m THEN v.docs ELSE "ok"
    IN  IF how = "noaddr" THEN <<DocsLabel(m)>>
        ELSE <<DocsLabel(m), AddrOf(net_key, m.toml_field, how)>>

DocsSection(n, v) ==
    IF v.docs = "nosection" /\ v.t.net = n.net_key THEN <<>>
    ELSE <<n.docs_header>> \o [i \in DOMAIN boundless_mapping |-> DocsLine(n.net_key, boundless_mapping[i], v)]

\* the orders of the three sections
Orders ==
    {o \in [DOMAIN boundless_networks -> DOMAIN boundless_networks] :
        \A i, j \in DOMAIN o : i # j => o[i] # o[j]}

W_TODO == <<"T","O","D","O",":">>

\* "TODO: fill"
PlainTodo == <<W_TODO, <<"f","i","l","l">>>>

\* "TODO: BoundlessMarket 0x00ee..ee"
LabelledTodo == <<W_TODO, LblBoundlessMarket.text, <<"0", "x", "0", "0">> \o Filled("e")>>

\* up to MaxTodos TODO lines, the labelled one (if any) first
TodoSeqs ==
    {q \in UNION {[1 .. n -> {PlainTodo, LabelledTodo}] : n \in 0 .. MaxTodos} :
        \A i \in DOMAIN q : i > 1 => q[i] = PlainTodo}

Title == <<<<"#">>, <<"D","e","p","l","o","y","m","e","n","t","s">>>>

\* the title, the first header, the TODO lines, then the rest
DocsFixture(v, o, todos) ==
    LET body == DocsSection(boundless_networks[o[1]], v)
                    \o DocsSection(boundless_networks[o[2]], v)
                    \o DocsSection(boundless_networks[o[3]], v)
    IN  <<Title, body[1]>> \o todos \o SubSeq(body, 2, Len(body))

CanonicalOrder == [i \in DOMAIN boundless_networks |-> i]

ExtractIdle ==
    /\ network = <<>>
    /\ addresses = EmptyMap

UpdaterIdle ==
    /\ toml_file = <<>>
    /\ CHAIN_KEY = "anvil"
    /\ field_mapping = EmptyMap
    /\ content = <<>>
    /\ doc = <<>>
    /\ next_key = 1
    /\ stdout = <<>>

\* main() after the files are read (lines 93-101)
InitChecker ==
    /\ pc = "todos"
    /\ \E v \in Variations, o \in Orders, todos \in TodoSeqs :
          /\ o # CanonicalOrder => v.t.group = "boundless" /\ v.rs = "ok"
          /\ toml_data = TomlFixture(v)
          /\ rs_content = RsFixture("boundless", v)
          /\ zkc_rs_content = RsFixture("zkc", v)
          /\ povw_rs_content = RsFixture("povw", v)
          /\ docs_content = DocsFixture(v, o, todos)
    /\ errors = 0
    /\ report = <<>>
    /\ iter = 1
    /\ exit_code = -1
    /\ ExtractIdle
    /\ UpdaterIdle

NextChecker ==
    \/ ScanTodos
    \/ CheckBoundless
    \/ CheckZkc
    \/ CheckPovw
    \/ ExitSuccess
    \/ ExitFailure

SpecChecker == InitChecker /\ [][NextChecker]_vars


(***************************************************************************)
(* What a run of the checker has to report, stated on the input files.     *)
(***************************************************************************)
\* the (group, network) pairs of the three loops
GroupNets ==
    {gn \in [group : Groups, net : AllNets] :
        gn.net \in {n.net_key : n \in Range(GroupNetworks(gn.group))}}

RsFileOf(g) ==
    CASE g = "boundless" -> rs_content
      [] g = "zkc" -> zkc_rs_content
      [] g = "povw" -> povw_rs_content

RsPathOf(g) ==
    CASE g = "boundless" -> BoundlessRs
      [] g = "zkc" -> ZkcRs
      [] g = "povw" -> PovwRs

HeaderOf(net_key) ==
    (CHOOSE n \in Range(boundless_networks) : n.net_key = net_key).docs_header

\* the three tables one loop iteration compares, docs being the documentation
Tables(gn, docs) ==
    [toml |-> toml_section(toml_data, gn.net),
     rs |-> extract_rs_addresses(RsFileOf(gn.group), GroupConst(gn.group, gn.net)),
     docs |-> IF gn.group = "boundless" THEN extract_docs_addresses(docs, HeaderOf(gn.net))
              ELSE EmptyMap]

\* the kinds of error field m has in the tables T of gn
FieldErrors(gn, m, T) ==
    LET t == Lower(Get(T.toml, m.toml_field))
        r == Lower(Get(T.rs, m.addr_field))
        d == Lower(Get(T.docs, m.addr_field))
    IN  {k \in {"MissingToml", "MissingRs", "MissingDocs", "MismatchRs", "MismatchDocs"} :
            CASE k = "MissingToml" -> t = <<>>
              [] k = "MissingRs" -> r = <<>>
              [] k = "MissingDocs" -> gn.group = "boundless" /\ d = <<>>
              [] k = "MismatchRs" -> t # <<>> /\ r # <<>> /\ t # r
              [] k = "MismatchDocs" -> gn.group = "boundless" /\ t # <<>> /\ d # <<>> /\ t # d}

\* the errors of one (group, network)
GroupNetErrors(gn, docs) ==
    LET T == Tables(gn, docs)
    IN  UNION {{<<gn, m, k>> : k \in FieldErrors(gn, m, T)} : m \in Range(GroupMapping(gn.group))}

\* the Missing and Mismatch errors of every (group, network, field)
FieldErrorCount(docs) == Cardinality(UNION {GroupNetErrors(gn, docs) : gn \in GroupNets})

TodoCount(docs) == Cardinality({i \in DOMAIN docs : HasTodo(docs[i])})

IsTodoFree(line) == ~HasTodo(line)

WithoutTodos(docs) == SelectSeq(docs, IsTodoFree)

IssueCount(x) == Cardinality({i \in DOMAIN report : report[i] = x})

IssuesOf(gn) == {i \in DOMAIN report : report[i].group = gn.group /\ report[i].net = gn.net}

\* C1: the checker exits with status 0 and prints the success line if and only
\* if the documentation has no TODO line and, for every tracked (group, network,
\* field), the deployment.toml value, the Rust constant and (boundless-market
\* group only) the documentation value are non-empty and equal after
\* lowercasing; otherwise it exits with status 1.
C1_ExitZeroIffConsistent ==
    pc = "done" =>
        LET consistent ==
                /\ \A i \in DOMAIN docs_content : ~HasTodo(docs_content[i])
                /\ \A gn \in GroupNets :
                      LET T == Tables(gn, docs_content)
                      IN  \A m \in Range(GroupMapping(gn.group)) :
                             /\ Get(T.toml, m.toml_field) # <<>>
                             /\ Lower(Get(T.rs, m.addr_field)) = Lower(Get(T.toml, m.toml_field))
                             /\ gn.group = "boundless" =>
                                   Lower(Get(T.docs, m.addr_field)) = Lower(Get(T.toml, m.toml_field))
        IN  /\ exit_code \in {0, 1}
            /\ exit_code = 0 <=> consistent
            /\ exit_code = 0 <=> IssueCount(Issue("Success", "", "", "", "")) = 1

\* a run that ends with status 0 on a deployment.toml written in mixed case
C1_Witness ==
    /\ pc = "done"
    /\ exit_code = 0
    /\ \E n \in DOMAIN toml_data : \E f \in DOMAIN toml_data[n] : toml_data[n][f] # Lower(toml_data[n][f])

\* no TODO line of the documentation has a known label followed by an address,
\* contains a section header or starts with ###
TodoLinesArePlain ==
    \A i \in DOMAIN docs_content :
        HasTodo(docs_content[i]) =>
            /\ ~StartsHeader(docs_content[i])
            /\ \A n \in Range(boundless_networks) : HeaderWord(docs_content[i], 1, n.docs_header) = 0
            /\ \A f \in AddressFieldNames : GrabAll(<<docs_content[i]>>)[f] = <<>>

C2_Counted ==
    pc = "done" =>
        /\ \A gn \in GroupNets : Cardinality(IssuesOf(gn)) = Cardinality(GroupNetErrors(gn, docs_content))
        /\ errors = TodoCount(docs_content) + FieldErrorCount(docs_content)
        /\ TodoCount(docs_content) > 0 => exit_code = 1

C2_TodoAddsOne ==
    pc = "done" => errors = FieldErrorCount(WithoutTodos(docs_content)) + TodoCount(docs_content)

\* C2 (amended): the error counter never decreases, every (group, network) is
\* checked whatever was found before, the final count is the number of TODO
\* lines plus the Missing and Mismatch errors of every (group, network, field),
\* a TODO line makes the exit status 1, and TODO lines that carry no label
\* followed by an address and no header raise the count by exactly one each.
C2_NeverAbortsEarly ==
    /\ [][errors' >= errors]_vars
    /\ [](C2_Counted /\ (TodoLinesArePlain => C2_TodoAddsOne))

\* C2 as claimed: every TODO line raises the reported count by exactly one
C2_AnyTodoAddsOne == C2_Counted /\ C2_TodoAddsOne

\* a finished run with a TODO line and errors found in every loop
C2_Witness ==
    /\ pc = "done"
    /\ TodoCount(docs_content) = 1
    /\ TodoLinesArePlain
    /\ errors > 1
    /\ \E i \in DOMAIN report : report[i].group = "povw"

\* C3: for every tracked field whose deployment.toml value is non-empty and
\* whose Rust value is empty, exactly one Missing error is reported for the
\* Rust side, none for deployment.toml and no TOML-vs-RS Mismatch.
C3_MissingSourceOnly ==
    pc = "done" =>
        \A gn \in GroupNets :
            LET T == Tables(gn, docs_content)
            IN  \A m \in Range(GroupMapping(gn.group)) :
                    (Get(T.toml, m.toml_field) # <<>> /\ Get(T.rs, m.addr_field) = <<>>) =>
                        /\ IssueCount(Issue("Missing", gn.group, gn.net, m.addr_field, RsPathOf(gn.group))) = 1
                        /\ IssueCount(Issue("Missing", gn.group, gn.net, m.toml_field, "deployment.toml")) = 0
                        /\ IssueCount(Issue("Mismatch", gn.group, gn.net, m.toml_field, "RS")) = 0

\* a finished run where the block exists, the field's value is not an address
\* and deployment.toml has the field
C3_Witness ==
    /\ pc = "done"
    /\ \E gn \in GroupNets : \E m \in Range(GroupMapping(gn.group)) :
          LET T == Tables(gn, docs_content)
          IN  /\ Get(T.toml, m.toml_field) # <<>>
              /\ m.addr_field \in DOMAIN T.rs
              /\ T.rs[m.addr_field] = <<>>

\* C4: a TOML-vs-RS (TOML-vs-documentation) Mismatch is reported for a field
\* exactly when both values are non-empty and differ after lowercasing.
C4_MismatchIffDiffer ==
    pc = "done" =>
        \A gn \in GroupNets :
            LET T == Tables(gn, docs_content)
            IN  \A m \in Range(GroupMapping(gn.group)) :
                    LET t == Get(T.toml, m.toml_field)
                        r == Get(T.rs, m.addr_field)
                        d == Get(T.docs, m.addr_field)
                    IN  /\ IssueCount(Issue("Mismatch", gn.group, gn.net, m.toml_field, "RS"))
                              = IF t # <<>> /\ r # <<>> /\ Lower(t) # Lower(r) THEN 1 ELSE 0
                        /\ IssueCount(Issue("Mismatch", gn.group, gn.net, m.toml_field, "documentation"))
                              = IF gn.group = "boundless" /\ t # <<>> /\ d # <<>> /\ Lower(t) # Lower(d)
                                THEN 1 ELSE 0

\* a finished run in which deployment.toml and the Rust constant differ in
\* letter case only, and one in which they differ
C4_Witness ==
    /\ pc = "done"
    /\ \E gn \in GroupNets : \E m \in Range(GroupMapping(gn.group)) :
          LET T == Tables(gn, docs_content)
          IN  /\ Get(T.rs, m.addr_field) # <<>>
              /\ Get(T.toml, m.toml_field) # Get(T.rs, m.addr_field)
              /\ Lower(Get(T.toml, m.toml_field)) = Get(T.rs, m.addr_field)
              /\ IssueCount(Issue("Mismatch", gn.group, gn.net, m.toml_field, "RS")) = 0

\* the lines of the section whose header line is exactly the header
RECURSIVE OwnHeaderLine(_, _, _)
OwnHeaderLine(docs, i, header) ==
    IF i > Len(docs) THEN 0
    ELSE IF docs[i] = header THEN i
    ELSE OwnHeaderLine(docs, i + 1, header)

OwnSectionAddresses(docs, header) ==
    LET i == OwnHeaderLine(docs, 1, header)
    IN  IF i = 0 THEN EmptyMap ELSE GrabAll(SubSeq(docs, i + 1, SectionEnd(docs, i)))

\* C9: the documentation errors reported for a boundless-market network are
\* those of the section whose header line is exactly the network's header.
C9_OwnSectionCompared ==
    pc = "done" =>
        \A n \in Range(boundless_networks) :
            LET own == OwnSectionAddresses(docs_content, n.docs_header)
                toml_net == toml_section(toml_data, n.net_key)
            IN  \A m \in Range(boundless_mapping) :
                    LET t == Lower(Get(toml_net, m.toml_field))
                        d == Lower(Get(own, m.addr_field))
                    IN  /\ IssueCount(Issue("Missing", "boundless", n.net_key, m.addr_field, "documentation"))
                              = IF d = <<>> THEN 1 ELSE 0
                        /\ IssueCount(Issue("Mismatch", "boundless", n.net_key, m.toml_field, "documentation"))
                              = IF t # <<>> /\ d # <<>> /\ t # d THEN 1 ELSE 0

\* C10: for every network and deployment.toml field at most one
\* "Missing ... in deployment.toml" error is counted in a run.
C10_MissingTomlOnce ==
    \A n \in AllNets, f \in UNION {NetFields(x) : x \in AllNets} :
        Cardinality({i \in DOMAIN report :
            /\ report[i].kind = "Missing"
            /\ report[i].where = "deployment.toml"
            /\ report[i].net = n
            /\ report[i].field = f}) <= 1


(***************************************************************************)
(* extract_rs_addresses called on its own.  The file holds a block for the *)
(* constant BASE, whose first MaxEntries address fields take every value   *)
(* shape (or are left out), next to a block for BASE_SEPOLIA.              *)
(***************************************************************************)
MaxEntries == 2

MixedLit == <<"0", "x">> \o [i \in 1 .. HexLen |-> IF i % 2 = 0 THEN "A" ELSE "b"]

ShortLit == <<"0", "x">> \o [i \in 1 .. (HexLen - 1) |-> "a"]

LongLit == <<"0", "x">> \o [i \in 1 .. (HexLen + 1) |-> "a"]

NonHexLit == <<"0", "x">> \o [i \in 1 .. HexLen |-> "g"]

\* None, address!("0x.."), Some(address!("0x..")), Address::ZERO, and address
\* macros whose literal is not 0x and HexLen hex digits
RsValues ==
    {[shape |-> "None", lit |-> <<>>],
     [shape |-> "address", lit |-> MixedLit],
     [shape |-> "Some", lit |-> MixedLit],
     [shape |-> "other", lit |-> <<>>],
     [shape |-> "address", lit |-> ShortLit],
     [shape |-> "Some", lit |-> LongLit],
     [shape |-> "address", lit |-> NonHexLit]}

RsFieldOrder ==
    <<"boundless_market_address", "verifier_router_address", "set_verifier_address",
      "collateral_token_address">>

ChainId == [field |-> "chain_id", val |-> [shape |-> "other", lit |-> <<>>], comma |-> TRUE]

\* the bodies: chain_id, then each of the first MaxEntries address fields with
\* one of the values or left out; the last entry may lack its trailing comma
RsBodies ==
    {LET all == [i \in 1 .. MaxEntries |-> [field |-> RsFieldOrder[i], val |-> c.vals[i], comma |-> TRUE]]
         Kept(e) == e.field \notin c.out
         kept == SelectSeq(all, Kept)
     IN  <<ChainId>> \o
            [i \in DOMAIN kept |-> IF i = Len(kept) THEN [kept[i] EXCEPT !.comma = c.comma] ELSE kept[i]] :
     c \in [vals : [1 .. MaxEntries -> RsValues],
            out : SUBSET {RsFieldOrder[i] : i \in 1 .. MaxEntries},
            comma : BOOLEAN]}

N_BASE == <<"B","A","S","E">>

N_BASE_SEPOLIA == <<"B","A","S","E","_","S","E","P","O","L","I","A">>

OtherBlock ==
    [name |-> N_BASE_SEPOLIA,
     body |-> <<ChainId, [field |-> "boundless_market_address",
                          val |-> [shape |-> "address", lit |-> <<"0", "x">> \o Filled("7") \o <<"d", "d">>],
                          comma |-> TRUE]>>]

RsInputs ==
    UNION {{<<>>, <<OtherBlock>>, <<[name |-> N_BASE, body |-> b]>>,
            <<OtherBlock, [name |-> N_BASE, body |-> b]>>,
            <<[name |-> N_BASE, body |-> b], OtherBlock>>} : b \in RsBodies}

CheckerIdle ==
    /\ toml_data = EmptyMap
    /\ errors = 0
    /\ report = <<>>
    /\ iter = 1
    /\ exit_code = -1

InitRs ==
    /\ pc = "call"
    /\ rs_content \in RsInputs
    /\ network \in {N_BASE, Lower(N_BASE), N_BASE_SEPOLIA}
    /\ addresses = EmptyMap
    /\ zkc_rs_content = <<>>
    /\ povw_rs_content = <<>>
    /\ docs_content = <<>>
    /\ CheckerIdle
    /\ UpdaterIdle

\* addresses = extract_rs_addresses(rs_content, network)
CallExtractRs ==
    /\ pc = "call"
    /\ addresses' = extract_rs_addresses(rs_content, network)
    /\ pc' = "returned"
    /\ UNCHANGED <<network, checkerVars, updaterVars>>

SpecRs == InitRs /\ [][CallExtractRs]_vars

\* the literal is 0x followed by exactly HexLen hex digits
IsAddressLit(lit) ==
    /\ Len(lit) = HexLen + 2
    /\ lit[1] = "0"
    /\ lit[2] = "x"
    /\ \A k \in 3 .. Len(lit) : lit[k] \in HexChars

\* C7: extract_rs_addresses returns the empty mapping when the file has no
\* block for the constant; otherwise every `<field>_address: <value>,` entry of
\* the block maps its field to the lowercased address when the value is an
\* address!("0x..") literal, bare or in Some(...), and to the empty string when
\* it is None or anything else; a field with no such entry is not a key.
C7_ExtractRs ==
    pc = "returned" =>
        LET named == {i \in DOMAIN rs_content : rs_content[i].name = Upper(network)}
        IN  IF named = {} THEN DOMAIN addresses = {}
            ELSE LET body == rs_content[CHOOSE i \in named : \A j \in named : i <= j].body
                     entries == {body[i] : i \in {k \in DOMAIN body : body[k].comma}}
                 IN  /\ DOMAIN addresses = {e.field : e \in entries} \cap AddressFieldNames
                     /\ \A e \in entries :
                           e.field \in AddressFieldNames =>
                               addresses[e.field] =
                                   IF e.val.shape \in {"address", "Some"} /\ IsAddressLit(e.val.lit)
                                   THEN Lower(e.val.lit) ELSE <<>>

\* the block is found after another one and holds a mixed-case address in
\* Some(...), returned in lower case, next to a value that is no address
C7_Witness ==
    /\ pc = "returned"
    /\ Len(rs_content) = 2
    /\ rs_content[2].name = Upper(network)
    /\ \E i \in DOMAIN rs_content[2].body :
          LET e == rs_content[2].body[i]
          IN  /\ e.val = [shape |-> "Some", lit |-> MixedLit]
              /\ e.field \in DOMAIN addresses
              /\ addresses[e.field] = Lower(MixedLit)
              /\ addresses[e.field] # MixedLit
    /\ \E f \in DOMAIN addresses : addresses[f] = <<>>


(***************************************************************************)
(* extract_docs_addresses called on its own, on a documentation made of a  *)
(* title, a header line (or none) and up to MaxLines lines.                *)
(***************************************************************************)
MaxLines == 3

DocAddr(c) == <<"0", "x">> \o [i \in 1 .. HexLen |-> c]

DocsLines ==
    {<<LblBoundlessMarket.text \o <<":">>, <<"(">> \o MixedLit \o <<")">>>>,
     <<LblBoundlessMarket.text>>,
     <<LblSetVerifier.text, DocAddr("2")>>,
     <<LblBoundlessMarket.text, LblSetVerifier.text, DocAddr("2")>>,
     <<DocAddr("3")>>,
     <<LblVeZKC.text, DocAddr("4")>>,
     <<LblZKC.text \o <<":">>, DocAddr("5") \o <<"0", "0">>>>,
     <<H3, W_Ethereum>>}

DocsBodies == UNION {[1 .. n -> DocsLines] : n \in 0 .. MaxLines}

DocsInputs ==
    UNION {{<<Title>> \o b, <<Title, <<H3, W_Base>>>> \o b, <<Title, <<H3, Lower(W_Base)>>>> \o b,
            <<Title, <<H3, W_Base, W_Sepolia, DocAddr("6")>>>> \o b} : b \in DocsBodies}

InitDocs ==
    /\ pc = "call"
    /\ docs_content \in DocsInputs
    /\ network \in {<<H3, W_Base>>, <<H3, W_Base, W_Sepolia>>}
    /\ addresses = EmptyMap
    /\ rs_content = <<>>
    /\ zkc_rs_content = <<>>
    /\ povw_rs_content = <<>>
    /\ CheckerIdle
    /\ UpdaterIdle

\* addresses = extract_docs_addresses(docs_content, network_section)
CallExtractDocs ==
    /\ pc = "call"
    /\ addresses' = extract_docs_addresses(docs_content, network)
    /\ pc' = "returned"
    /\ UNCHANGED <<network, checkerVars, updaterVars>>

SpecDocs == InitDocs /\ [][CallExtractDocs]_vars

\* the captured section of the call, <<>> when the header is not found
CapturedSection ==
    LET i == HeaderLine(docs_content, 1, network)
    IN  IF i = 0 THEN <<>> ELSE SectionBody(docs_content, i, network)

\* positions <<word, character>> of a line
LabelPositions(line, label) ==
    {q \in UNION {{<<j, p>> : p \in 1 .. Len(line[j])} : j \in DOMAIN line} :
        LabelAt(line[q[1]], q[2], label)}

AddrPositions(line) ==
    {q \in UNION {{<<j, p>> : p \in 1 .. Len(line[j])} : j \in DOMAIN line} :
        AddrAt(line[q[1]], q[2])}

NotAfter(a, b) == a[1] < b[1] \/ (a[1] = b[1] /\ a[2] <= b[2])

\* the addresses of the line that follow the first occurrence of the label
AddressesAfterLabel(line, label) ==
    LET lps == LabelPositions(line, label)
    IN  IF lps = {} THEN {}
        ELSE LET lp == CHOOSE a \in lps : \A b \in lps : NotAfter(a, b)
             IN  {a \in AddrPositions(line) : NotAfter(<<lp[1], lp[2] + Len(label.text)>>, a)}

\* the first hex address that follows the label on the line, <<>> if none
SameLineAddress(line, label) ==
    LET aps == AddressesAfterLabel(line, label)
    IN  IF aps = {} THEN <<>>
        ELSE LET ap == CHOOSE a \in aps : \A b \in aps : NotAfter(a, b)
             IN  SubSeq(line[ap[1]], ap[2], ap[2] + HexLen + 1)

\* C8 (amended): within the captured section, each known label gets the
\* lowercased first hex address that follows an occurrence of the label on the
\* same line, on the first line of the section where one does (an address of a
\* later field on that line included), and the empty string exactly when no
\* line of the section has a hex address after the label.
C8_GrabSameLine ==
    pc = "returned" =>
        IF HeaderLine(docs_content, 1, network) = 0 THEN DOMAIN addresses = {}
        ELSE /\ DOMAIN addresses = AddressFieldNames
             /\ \A f \in AddressFieldNames :
                   LET hits == {i \in DOMAIN CapturedSection :
                                    SameLineAddress(CapturedSection[i], LabelOf(f)) # <<>>}
                   IN  addresses[f] =
                          IF hits = {} THEN <<>>
                          ELSE Lower(SameLineAddress(
                                  CapturedSection[CHOOSE i \in hits : \A j \in hits : i <= j], LabelOf(f)))

RECURSIVE Flatten(_)
Flatten(lines) == IF lines = <<>> THEN <<>> ELSE Head(lines) \o Flatten(Tail(lines))

\* C8 as claimed: each label gets the lowercased first hex address that appears
\* anywhere after an occurrence of the label before the section ends, on a
\* later line too.
C8_GrabAcrossLines ==
    pc = "returned" /\ HeaderLine(docs_content, 1, network) # 0 =>
        \A f \in AddressFieldNames :
            addresses[f] = Lower(SameLineAddress(Flatten(CapturedSection), LabelOf(f)))

\* the label's own address is missing and the address of the next field on the
\* same line is recorded, in lower case
C8_Witness ==
    /\ pc = "returned"
    /\ \E i \in DOMAIN CapturedSection :
          CapturedSection[i] = <<LblBoundlessMarket.text, LblSetVerifier.text, DocAddr("2")>>
    /\ addresses["boundless_market_address"] = DocAddr("2")
    /\ addresses["zkc_address"] # <<>>


(***************************************************************************)
(* contracts/update_deployment_toml.py                                     *)
(*                                                                         *)
(* The text of deployment.toml is the sequence of its lines.  A line is a  *)
(* table header [deployment.<net>] or a `key = "val"` pair of the table    *)
(* above it; trail says whether whitespace follows the text of the line    *)
(* and eol is "LF", "CRLF" or "EOF" (a last line without newline).  The    *)
(* value of a pair written as a multi-line string (multiline = TRUE) has   *)
(* its line breaks inside val, so such a pair covers several lines of the  *)
(* file.  tomlkit keeps the text of what it parses, so the parsed document *)
(* is the same sequence.                                                   *)
(***************************************************************************)
\* the keys of field_mapping, in order (lines 47-73)
FieldKeys ==
    <<"admin", "verifier", "set-verifier", "boundless-market", "boundless-market-impl",
      "boundless-market-old-impl", "collateral-token", "assessor-image-id",
      "assessor-guest-url", "povw-accounting", "povw-accounting-impl",
      "povw-accounting-old-impl", "povw-mint", "povw-mint-impl", "povw-mint-old-impl",
      "povw-log-updater-id", "povw-mint-calculator-id", "povw-accounting-deployment-commit",
      "povw-mint-deployment-commit", "zkc", "vezkc">>

\* characters str.strip() removes
Whitespace == {" ", "\t", "\n", "\r", "\f"}

\* str.strip()
RECURSIVE StripLeft(_)
StripLeft(v) == IF v # <<>> /\ Head(v) \in Whitespace THEN StripLeft(Tail(v)) ELSE v

RECURSIVE StripRight(_)
StripRight(v) ==
    IF v # <<>> /\ v[Len(v)] \in Whitespace THEN StripRight(SubSeq(v, 1, Len(v) - 1)) ELSE v

Strip(v) == StripRight(StripLeft(v))

TableLine(net_key, trail, eol) ==
    [kind |-> "table", net |-> net_key, key |-> "", val |-> <<>>, multiline |-> FALSE,
     trail |-> trail, eol |-> eol]

PairLine(key, val, trail, eol) ==
    [kind |-> "kv", net |-> "", key |-> key, val |-> val, multiline |-> FALSE,
     trail |-> trail, eol |-> eol]

MultiLinePair(key, val, trail, eol) ==
    [kind |-> "kv", net |-> "", key |-> key, val |-> val, multiline |-> TRUE,
     trail |-> trail, eol |-> eol]

\* parse(content)
parse(text) == text

\* the table line i of the document belongs to, "" before the first header
RECURSIVE TableOf(_, _)
TableOf(d, i) ==
    IF i = 0 THEN ""
    ELSE IF d[i].kind = "table" THEN d[i].net
    ELSE TableOf(d, i - 1)

\* a lookup that never raises KeyError
HasSection_Always(d, net_key) == TRUE

\* doc["deployment"][CHAIN_KEY] does not raise KeyError
HasSection(d, net_key) == \E i \in DOMAIN d : d[i].kind = "table" /\ d[i].net = net_key

SectionLines(d, net_key) == {i \in DOMAIN d : TableOf(d, i) = net_key}

KeyLines(d, net_key, key) == {i \in SectionLines(d, net_key) : d[i].kind = "kv" /\ d[i].key = key}

Max(S) == CHOOSE x \in S : \A y \in S : y <= x

\* section[key] = value: the value of an existing pair is replaced in place, a
\* new pair is added after the last line of the table; the string is written
\* on one line
SetItem(d, net_key, key, value) ==
    IF KeyLines(d, net_key, key) # {}
    THEN [d EXCEPT ![Max(KeyLines(d, net_key, key))].val = value,
                   ![Max(KeyLines(d, net_key, key))].multiline = FALSE]
    ELSE LET at == IF SectionLines(d, net_key) = {} THEN Len(d) ELSE Max(SectionLines(d, net_key))
         IN  SubSeq(d, 1, at) \o <<PairLine(key, value, FALSE, "LF")>> \o SubSeq(d, at + 1, Len(d))

\* line.rstrip() for the lines of the file that lie inside a multi-line string:
\* seg is the line read so far, and the text after the last line break is
\* followed by the closing quotes
RECURSIVE RstripLines(_, _, _)
RstripLines(v, i, seg) ==
    IF i > Len(v) THEN seg
    ELSE IF v[i] = "\n" THEN StripRight(seg) \o <<"\n">> \o RstripLines(v, i + 1, <<>>)
    ELSE RstripLines(v, i + 1, Append(seg, v[i]))

\* "\n".join(line.rstrip() for line in dumps(doc).splitlines()) + "\n"
CleanOutput(d) ==
    [i \in DOMAIN d |->
        [d[i] EXCEPT !.trail = FALSE, !.eol = "LF",
                     !.val = IF d[i].multiline THEN RstripLines(@, 1, <<>>) ELSE @]]

\* index of the first item of field_mapping from i on whose value is not None,
\* 0 if there is none
RECURSIVE NextSupplied(_, _)
NextSupplied(mapping, i) ==
    IF i > Len(FieldKeys) THEN 0
    ELSE IF FieldKeys[i] \in DOMAIN mapping THEN i
    ELSE NextSupplied(mapping, i + 1)

Updated(key, value) == [msg |-> "Updated", key |-> key, value |-> value]

\* lines 76-77
LoadToml ==
    /\ pc = "load"
    /\ content' = toml_file
    /\ doc' = parse(toml_file)
    /\ pc' = "section"
    /\ UNCHANGED <<toml_file, CHAIN_KEY, field_mapping, next_key, stdout>>
    /\ UNCHANGED <<checkerVars, extractVars>>

\* lines 80-81: the section is there
AccessSection ==
    /\ pc = "section"
    /\ HasSection(doc, CHAIN_KEY)
    /\ pc' = "update"
    /\ UNCHANGED updaterVars
    /\ UNCHANGED <<checkerVars, extractVars>>

\* lines 82-83: KeyError, re-raised as RuntimeError
SectionNotFound ==
    /\ pc = "section"
    /\ ~HasSection(doc, CHAIN_KEY)
    /\ pc' = "fatal"
    /\ UNCHANGED updaterVars
    /\ UNCHANGED <<checkerVars, extractVars>>

\* lines 86-92: the next iteration whose value is not None
UpdateField ==
    /\ pc = "update"
    /\ NextSupplied(field_mapping, next_key) # 0
    /\ LET i == NextSupplied(field_mapping, next_key)
           key == FieldKeys[i]
           value == Strip(field_mapping[key])
       IN  /\ doc' = SetItem(doc, CHAIN_KEY, key, value)
           /\ stdout' = Append(stdout, Updated(key, value))
           /\ next_key' = i + 1
    /\ pc' = pc
    /\ UNCHANGED <<toml_file, CHAIN_KEY, field_mapping, content>>
    /\ UNCHANGED <<checkerVars, extractVars>>

\* lines 95-99
WriteToml ==
    /\ pc = "update"
    /\ NextSupplied(field_mapping, next_key) = 0
    /\ toml_file' = CleanOutput(doc)
    /\ stdout' = Append(stdout, [msg |-> "updated successfully", key |-> "", value |-> <<>>])
    /\ pc' = "done"
    /\ UNCHANGED <<CHAIN_KEY, field_mapping, content, doc, next_key>>
    /\ UNCHANGED <<checkerVars, extractVars>>

(***************************************************************************)
(* Runs of the updater: up to MaxArgs arguments are given, each the text   *)
(* of its key padded in one of three ways, on one of the network keys and  *)
(* one of the files below.                                                 *)
(***************************************************************************)
MaxArgs == 2

HexDigitSeq == <<"0","1","2","3","4","5","6","7","8","9","a","b","c","d","e","f">>

\* the text given for the i-th key, unpadded (it has a space inside)
RawArg(i) == <<"0", "x", HexDigitSeq[(i \div 16) + 1], HexDigitSeq[(i % 16) + 1], " ", "K">>

Padded(v, style) ==
    CASE style = "none" -> v
      [] style = "spaces" -> <<" ">> \o v \o <<" ", " ">>
      [] style = "mixed" -> <<"\t">> \o v \o <<"\r", "\n">>
      [] style = "blank" -> <<" ", "\t">>

ArgSets == {S \in SUBSET (DOMAIN FieldKeys) : Cardinality(S) <= MaxArgs}

OldVal(c) == <<"0", "x", c, c>>

\* two tables, CRLF line ends, trailing blanks, a value with blanks inside the
\* quotes, no newline at the end
FileBoth ==
    <<TableLine("anvil", FALSE, "CRLF"),
      PairLine("admin", OldVal("1"), TRUE, "CRLF"),
      PairLine("verifier", <<" ">> \o OldVal("2") \o <<" ">>, FALSE, "LF"),
      PairLine("chain-id", <<"1">>, FALSE, "LF"),
      TableLine("base-mainnet", TRUE, "LF"),
      PairLine("admin", OldVal("3"), FALSE, "LF"),
      PairLine("zkc", <<>>, TRUE, "EOF")>>

\* a value written as a multi-line string, one with blanks before a line
\* break and one without
FileMultiLine(blanks) ==
    <<TableLine("anvil", FALSE, "LF"),
      MultiLinePair("assessor-guest-url", <<"u">> \o blanks \o <<"\n", " ", "v", " ">>, FALSE, "LF"),
      PairLine("admin", OldVal("1"), FALSE, "LF"),
      TableLine("base-mainnet", FALSE, "LF"),
      PairLine("admin", OldVal("3"), FALSE, "LF")>>

\* no [deployment.anvil] table
FileNoAnvil ==
    <<TableLine("base-mainnet", FALSE, "LF"),
      PairLine("admin", OldVal("3") \o <<" ">>, TRUE, "CRLF"),
      PairLine("vezkc", OldVal("4"), FALSE, "LF")>>

InitUpdater ==
    /\ pc = "load"
    /\ toml_file \in {FileBoth, FileNoAnvil, FileMultiLine(<<>>), FileMultiLine(<<" ", "\t">>)}
    /\ CHAIN_KEY \in {"anvil", "base-mainnet", "base-sepolia"}
    /\ \E S \in ArgSets, style \in {"none", "spaces", "mixed", "blank"} :
          field_mapping = [k \in {FieldKeys[i] : i \in S} |->
                              Padded(RawArg(CHOOSE i \in S : FieldKeys[i] = k), style)]
    /\ content = <<>>
    /\ doc = <<>>
    /\ next_key = 1
    /\ stdout = <<>>
    /\ toml_data = EmptyMap
    /\ rs_content = <<>>
    /\ zkc_rs_content = <<>>
    /\ povw_rs_content = <<>>
    /\ docs_content = <<>>
    /\ errors = 0
    /\ report = <<>>
    /\ iter = 1
    /\ exit_code = -1
    /\ ExtractIdle

NextUpdater ==
    \/ LoadToml
    \/ AccessSection
    \/ SectionNotFound
    \/ UpdateField
    \/ WriteToml

SpecUpdater == InitUpdater /\ [][NextUpdater]_vars

\* the value of key in table net_key of a text, Absent when there is none
Absent == <<"absent">>

ValueIn(text, net_key, key) ==
    LET at == {i \in DOMAIN text :
                  /\ text[i].kind = "kv"
                  /\ text[i].key = key
                  /\ \E h \in 1 .. (i - 1) :
                        /\ text[h].kind = "table"
                        /\ text[h].net = net_key
                        /\ \A j \in (h + 1) .. (i - 1) : text[j].kind # "table"}
    IN  IF at = {} THEN Absent ELSE text[CHOOSE i \in at : TRUE].val

TableNames(text) == {text[i].net : i \in {j \in DOMAIN text : text[j].kind = "table"}}

KeyNames(text) ==
    {text[i].key : i \in {j \in DOMAIN text : text[j].kind = "kv"}} \cup Range(FieldKeys)

\* v without its leading and trailing whitespace
Trimmed(v) ==
    LET inner == {i \in DOMAIN v : v[i] \notin Whitespace}
    IN  IF inner = {} THEN <<>>
        ELSE SubSeq(v, CHOOSE i \in inner : \A j \in inner : i <= j,
                       CHOOSE i \in inner : \A j \in inner : j <= i)

\* C5: when deployment.toml has no table for the selected network, the updater
\* ends with a fatal error, prints no line and never writes the file.
C5_MissingSectionIsFatal ==
    (pc # "load" /\ CHAIN_KEY \notin TableNames(content)) =>
        /\ pc \in {"section", "fatal"}
        /\ stdout = <<>>
        /\ toml_file = content
        /\ ~ENABLED WriteToml
        /\ ~ENABLED UpdateField

\* the run has failed although arguments were given
C5_Witness ==
    /\ pc = "fatal"
    /\ DOMAIN field_mapping # {}
    /\ CHAIN_KEY \notin TableNames(content)
    /\ TableNames(content) # {}

\* C6: after a successful run every given field of the selected table holds
\* the given value without its surrounding whitespace, every other field of
\* every table holds the value it had, and one Updated line is printed for
\* each given field and none for the others.
C6_OnlyGivenFieldsChange ==
    pc = "done" =>
        /\ TableNames(toml_file) = TableNames(content)
        /\ \A n \in TableNames(content), k \in KeyNames(content) \cup KeyNames(toml_file) :
              ValueIn(toml_file, n, k) =
                  IF n = CHAIN_KEY /\ k \in DOMAIN field_mapping
                  THEN Trimmed(field_mapping[k])
                  ELSE ValueIn(content, n, k)
        /\ \A i \in DOMAIN FieldKeys :
              Cardinality({j \in DOMAIN stdout : stdout[j].msg = "Updated" /\ stdout[j].key = FieldKeys[i]})
                  = IF FieldKeys[i] \in DOMAIN field_mapping THEN 1 ELSE 0
        /\ \A j \in DOMAIN stdout :
              stdout[j].msg = "Updated" => stdout[j].value = Trimmed(field_mapping[stdout[j].key])
        /\ \A i \in DOMAIN toml_file : toml_file[i].trail = FALSE /\ toml_file[i].eol = "LF"

====
